---- MODULE Spec2Model ----
(***************************************************************************)
(* Expense tracker MCP server (src/main.py) and its taxonomy seeding       *)
(* script (src/postgre.py).                                                *)
(*                                                                         *)
(* The store is three tables (categories, subcategories, expenses).  Each  *)
(* request handler is a coroutine: it runs atomically between two awaits,  *)
(* and every await (get_conn, fetch, fetchrow, fetchval, close) is a point *)
(* where other requests and the seeding script may interleave.  A text is  *)
(* a sequence of one-character strings so that strptime can be modelled by *)
(* what it does to the characters.  An Optional value is <<>> (None) or    *)
(* <<x>>.                                                                  *)
(***************************************************************************)
EXTENDS Integers, Sequences, FiniteSets, TLC

VARIABLES categories, subcategories, expenses, openConns,
          pc, frame, ret, trace, calls

vars == <<categories, subcategories, expenses, openConns,
          pc, frame, ret, trace, calls>>

None == <<>>
Some(x) == <<x>>

\* Python truthiness of an Optional[str]: None and "" are falsy.
Truthy(opt) == opt # None /\ opt[1] # ""

------------------------------------------------------------------------------
(* Bounds *)

\* Requests served in one behaviour of Spec.
MaxCalls == 3

\* Concurrent request tasks.
Tasks == {"t1", "t2"}

------------------------------------------------------------------------------
(* datetime.strptime and datetime.date, as used at main.py:137-140 *)

Digits == <<"0", "1", "2", "3", "4", "5", "6", "7", "8", "9">>

IsDigit(c) == \E i \in 1..10 : Digits[i] = c

DigitVal(c) == (CHOOSE i \in 1..10 : Digits[i] = c) - 1

RECURSIVE SplitOn(_, _)
\* The fields of text between occurrences of sep.
SplitOn(text, sep) ==
    IF \A i \in 1..Len(text) : text[i] # sep
    THEN <<text>>
    ELSE LET k == CHOOSE i \in 1..Len(text) :
                      text[i] = sep /\ \A j \in 1..(i - 1) : text[j] # sep
         IN  <<SubSeq(text, 1, k - 1)>> \o SplitOn(SubSeq(text, k + 1, Len(text)), sep)

\* %d : 3[0-1] | [1-2]\d | 0[1-9] | [1-9] | " "[1-9]
IsDayField(f) ==
    \/ Len(f) = 2 /\ f[1] = "3" /\ f[2] \in {"0", "1"}
    \/ Len(f) = 2 /\ f[1] \in {"1", "2"} /\ IsDigit(f[2])
    \/ Len(f) = 2 /\ f[1] \in {"0", " "} /\ IsDigit(f[2]) /\ f[2] # "0"
    \/ Len(f) = 1 /\ IsDigit(f[1]) /\ f[1] # "0"

\* %m : 1[0-2] | 0[1-9] | [1-9]
IsMonthField(f) ==
    \/ Len(f) = 2 /\ f[1] = "1" /\ f[2] \in {"0", "1", "2"}
    \/ Len(f) = 2 /\ f[1] = "0" /\ IsDigit(f[2]) /\ f[2] # "0"
    \/ Len(f) = 1 /\ IsDigit(f[1]) /\ f[1] # "0"

\* %Y : \d\d\d\d
IsYearField(f) == Len(f) = 4 /\ \A i \in 1..4 : IsDigit(f[i])

RECURSIVE FieldVal(_)
\* int() of a field of digits; a leading space counts as nothing.
FieldVal(f) ==
    IF Len(f) = 0 THEN 0
    ELSE IF f[Len(f)] = " " THEN 0
    ELSE 10 * FieldVal(SubSeq(f, 1, Len(f) - 1)) + DigitVal(f[Len(f)])

IsLeap(y) == (y % 4 = 0 /\ y % 100 # 0) \/ y % 400 = 0

DaysInMonth(y, m) ==
    IF m = 2 THEN (IF IsLeap(y) THEN 29 ELSE 28)
    ELSE IF m \in {4, 6, 9, 11} THEN 30 ELSE 31

\* datetime.date(y, m, d) raises ValueError outside these ranges.
ValidDate(y, m, d) ==
    /\ y >= 1
    /\ m \in 1..12
    /\ d >= 1 /\ d <= DaysInMonth(y, m)

MkDate(y, m, d) == [year |-> y, month |-> m, day |-> d]

\* strptime_dmy with the first two directives exchanged: "%m-%d-%Y".
strptime_mdy(text) ==
    LET f == SplitOn(text, "-")
    IN  IF Len(f) = 3 /\ IsMonthField(f[1]) /\ IsDayField(f[2]) /\ IsYearField(f[3])
           /\ ValidDate(FieldVal(f[3]), FieldVal(f[1]), FieldVal(f[2]))
        THEN Some(MkDate(FieldVal(f[3]), FieldVal(f[1]), FieldVal(f[2])))
        ELSE None

\* datetime.strptime(text, "%d-%m-%Y").date(): Some(date), or None for ValueError.
strptime_dmy(text) ==
    LET f == SplitOn(text, "-")
    IN  IF Len(f) = 3 /\ IsDayField(f[1]) /\ IsMonthField(f[2]) /\ IsYearField(f[3])
           /\ ValidDate(FieldVal(f[3]), FieldVal(f[2]), FieldVal(f[1]))
        THEN Some(MkDate(FieldVal(f[3]), FieldVal(f[2]), FieldVal(f[1])))
        ELSE None

\* datetime.strptime(text, "%Y-%m-%d").date(): Some(date), or None for ValueError.
strptime_ymd(text) ==
    LET f == SplitOn(text, "-")
    IN  IF Len(f) = 3 /\ IsYearField(f[1]) /\ IsMonthField(f[2]) /\ IsDayField(f[3])
           /\ ValidDate(FieldVal(f[1]), FieldVal(f[2]), FieldVal(f[3]))
        THEN Some(MkDate(FieldVal(f[1]), FieldVal(f[2]), FieldVal(f[3])))
        ELSE None

\* The order of calendar dates (expense_date BETWEEN, ORDER BY expense_date).
DateOrd(d) == d.year * 10000 + d.month * 100 + d.day

NoDate == MkDate(0, 0, 0)

------------------------------------------------------------------------------
(* Texts *)

Text_15_01_2024 == <<"1", "5", "-", "0", "1", "-", "2", "0", "2", "4">>
Text_2024_01_15 == <<"2", "0", "2", "4", "-", "0", "1", "-", "1", "5">>
Text_15s01s2024 == <<"1", "5", "/", "0", "1", "/", "2", "0", "2", "4">>
Text_01_02_2020 == <<"0", "1", "-", "0", "2", "-", "2", "0", "2", "0">>
Text_31_02_2024 == <<"3", "1", "-", "0", "2", "-", "2", "0", "2", "4">>
Text_01_01_2024 == <<"0", "1", "-", "0", "1", "-", "2", "0", "2", "4">>
Text_2024_01_01 == <<"2", "0", "2", "4", "-", "0", "1", "-", "0", "1">>
Text_2024_01_31 == <<"2", "0", "2", "4", "-", "0", "1", "-", "3", "1">>
Text_31_01_2024 == <<"3", "1", "-", "0", "1", "-", "2", "0", "2", "4">>
Text_2024_01_20 == <<"2", "0", "2", "4", "-", "0", "1", "-", "2", "0">>
Text_5_1_2024 == <<"5", "-", "1", "-", "2", "0", "2", "4">>

DateTexts ==
    {Text_15_01_2024, Text_2024_01_15, Text_15s01s2024, Text_01_02_2020,
     Text_31_02_2024, Text_5_1_2024}

RangeTexts ==
    {Text_01_01_2024, Text_2024_01_01, Text_31_01_2024, Text_2024_01_31,
     Text_15s01s2024, Text_31_02_2024}

Texts == DateTexts \cup RangeTexts \cup {Text_2024_01_20}

\* strptime on the texts of the model, evaluated once for each text.
ParseDmy == [text \in Texts |-> strptime_dmy(text)]

ParseYmd == [text \in Texts |-> strptime_ymd(text)]

\* The error values the handlers return, as the pieces of their message.
MsgInvalidDateAdd ==
    <<"Invalid date format. Use ", "DD-MM-YYYY", " or ", "YYYY-MM-DD", ".">>

MsgInvalidDateRange == <<"Invalid date format.">>

MsgInvalidCategory(category) == <<"Invalid category: ", category>>

MsgInvalidSubcategory(subcategory, category) ==
    <<"Invalid subcategory '", subcategory, "' for '", category, "'">>

------------------------------------------------------------------------------
(* The taxonomy tables and the seeding script *)

NextId(table) == Cardinality(table) + 1

\* INSERT INTO categories (name) ... ON CONFLICT (name) DO NOTHING
InsertCategory(cats, name) ==
    IF \E c \in cats : c.name = name THEN cats
    ELSE cats \cup {[id |-> NextId(cats), name |-> name]}

\* The id the script holds after the insert, or after its SELECT on a conflict.
SeedCategoryId(cats, name) == (CHOOSE c \in cats : c.name = name).id

\* INSERT INTO subcategories ... ON CONFLICT (category_id, name) DO NOTHING
InsertSubcategory(subs, category_id, name) ==
    IF \E s \in subs : s.category_id = category_id /\ s.name = name THEN subs
    ELSE subs \cup {[id |-> NextId(subs), category_id |-> category_id, name |-> name]}

RECURSIVE InsertSubcategories(_, _, _)
InsertSubcategories(subs, category_id, names) ==
    IF names = <<>> THEN subs
    ELSE InsertSubcategories(InsertSubcategory(subs, category_id, Head(names)),
                             category_id, Tail(names))

RECURSIVE SeedLoop(_, _, _)
\* for category, subs in data.items(): ...
SeedLoop(data, cats, subs) ==
    IF data = <<>> THEN [categories |-> cats, subcategories |-> subs]
    ELSE LET cats2 == InsertCategory(cats, Head(data).category)
             cid == SeedCategoryId(cats2, Head(data).category)
         IN  SeedLoop(Tail(data), cats2,
                      InsertSubcategories(subs, cid, Head(data).subs))

\* Contents of categories.json the script may be run on.
CategoriesJson1 ==
    << [category |-> "Food", subs |-> <<"Groceries">>],
       [category |-> "Transport", subs |-> <<"Transit">>] >>

CategoriesJson2 ==
    << [category |-> "Food", subs |-> <<"Groceries", "Transit">>],
       [category |-> "Health", subs |-> << >>] >>

SeedFiles == {CategoriesJson1, CategoriesJson2}

Seeded == SeedLoop(CategoriesJson1, {}, {})

------------------------------------------------------------------------------
(* Queries of main.py *)

\* SELECT id FROM categories WHERE name = $1   (fetchrow: a row or None)
SelectCategory(name) ==
    IF \E c \in categories : c.name = name
    THEN Some((CHOOSE c \in categories : c.name = name).id)
    ELSE None

\* SelectSubcategory without its AND category_id = $2.
SelectSubcategoryByName(name, category_id) ==
    IF \E s \in subcategories : s.name = name
    THEN Some((CHOOSE s \in subcategories : s.name = name).id)
    ELSE None

\* SELECT id FROM subcategories WHERE name = $1 AND category_id = $2
SelectSubcategory(name, category_id) ==
    IF \E s \in subcategories : s.name = name /\ s.category_id = category_id
    THEN Some((CHOOSE s \in subcategories :
                  s.name = name /\ s.category_id = category_id).id)
    ELSE None

\* INSERT INTO expenses (...) VALUES ($1, ..., $6) RETURNING id
InsertExpense(user_id, date, amount, category_id, subcategory_id, note) ==
    Append(expenses, [id |-> Len(expenses) + 1,
                      user_id |-> user_id,
                      expense_date |-> date,
                      amount |-> amount,
                      category_id |-> category_id,
                      subcategory_id |-> subcategory_id,
                      note |-> note])

\* A query parameter, tagged with its type.
StrP(s) == [ty |-> "str", s |-> s, d |-> NoDate]
DateP(d) == [ty |-> "date", s |-> "", d |-> d]

\* FROM expenses e JOIN categories c ON e.category_id = c.id
\*                 LEFT JOIN subcategories s ON e.subcategory_id = s.id
JoinedRows ==
    { [id |-> e.id,
       user_id |-> e.user_id,
       expense_date |-> e.expense_date,
       amount |-> e.amount,
       category |-> c.name,
       subcategory |->
           IF e.subcategory_id # None
              /\ \E s \in subcategories : s.id = e.subcategory_id[1]
           THEN Some((CHOOSE s \in subcategories : s.id = e.subcategory_id[1]).name)
           ELSE None,
       note |-> e.note]
      : <<e, c>> \in
          { p \in {expenses[i] : i \in 1..Len(expenses)} \X categories :
                p[1].category_id = p[2].id } }

\* One predicate of a WHERE clause over a joined row; a NULL never equals.
Holds(p, row, params) ==
    CASE p.col = "e.user_id" -> StrP(row.user_id) = params[p.slots[1]]
      [] p.col = "c.name" -> StrP(row.category) = params[p.slots[1]]
      [] p.col = "s.name" ->
            row.subcategory # None /\ StrP(row.subcategory[1]) = params[p.slots[1]]
      [] p.col = "e.expense_date" ->
            /\ params[p.slots[1]].ty = "date" /\ params[p.slots[2]].ty = "date"
            /\ DateOrd(params[p.slots[1]].d) <= DateOrd(row.expense_date)
            /\ DateOrd(row.expense_date) <= DateOrd(params[p.slots[2]].d)

\* The $n placeholders a WHERE clause holds.
Placeholders(query) ==
    UNION { {query[i].slots[j] : j \in 1..Len(query[i].slots)} : i \in 1..Len(query) }

\* The server can bind the arguments: every placeholder $1..$n is used and has
\* an argument (an unused one has no type, a missing one no value).
BindOk(query, params) == Placeholders(query) = 1..Len(params)

Matching(query, params) ==
    { row \in JoinedRows : \A i \in 1..Len(query) : Holds(query[i], row, params) }

\* The sequences that hold each element of S once, in ascending order of key;
\* rows with equal keys come in any order (ORDER BY leaves it open).
SortedSeqs(S, key) ==
    { q \in [1..Cardinality(S) -> S] :
        /\ \A i, j \in 1..Cardinality(S) : i # j => q[i] # q[j]
        /\ \A i, j \in 1..Cardinality(S) : i < j => key[q[i]] <= key[q[j]] }

RECURSIVE SumAmounts(_)
SumAmounts(rows) ==
    IF rows = {} THEN 0
    ELSE LET r == CHOOSE x \in rows : TRUE
         IN  r.amount + SumAmounts(rows \ {r})

\* WhereOwnerAndRange without its e.user_id = $1.
WhereRangeOnly == << [col |-> "e.expense_date", slots |-> <<2, 3>>] >>

\* WHERE e.user_id = $1 AND e.expense_date BETWEEN $2 AND $3
WhereOwnerAndRange ==
    << [col |-> "e.user_id", slots |-> <<1>>],
       [col |-> "e.expense_date", slots |-> <<2, 3>>] >>

\* The record list_expenses returns for a row: dict(r) of the selected columns.
ListRecord(row) ==
    [id |-> row.id, expense_date |-> row.expense_date, amount |-> row.amount,
     category |-> row.category, subcategory |-> row.subcategory, note |-> row.note]

\* ListQueryResults with ORDER BY e.expense_date DESC.
ListQueryResultsDesc(params) ==
    LET recs == {ListRecord(row) : row \in Matching(WhereOwnerAndRange, params)}
    IN  SortedSeqs(recs, [r \in recs |-> 0 - DateOrd(r.expense_date)])

\* list_expenses' SELECT ... ORDER BY e.expense_date ASC: the possible results.
ListQueryResults(params) ==
    LET recs == {ListRecord(row) : row \in Matching(WhereOwnerAndRange, params)}
    IN  SortedSeqs(recs, [r \in recs |-> DateOrd(r.expense_date)])

\* summarize's query and params, built from the optional filters.
BuildSummarize(user_id, start_date, end_date, category, subcategory) ==
    LET q4 == IF Truthy(category)
              THEN <<[col |-> "c.name", slots |-> <<4>>]>> ELSE <<>>
        p4 == IF Truthy(category) THEN <<StrP(category[1])>> ELSE <<>>
        q5 == IF Truthy(subcategory)
              THEN <<[col |-> "s.name", slots |-> <<5>>]>> ELSE <<>>
        p5 == IF Truthy(subcategory) THEN <<StrP(subcategory[1])>> ELSE <<>>
    IN  [query |-> WhereOwnerAndRange \o q4 \o q5,
         params |-> <<StrP(user_id), DateP(start_date), DateP(end_date)>> \o p4 \o p5]

\* GROUP BY c.name, s.name with SUM(e.amount)
GroupTotals(rows) ==
    { [category |-> k[1], subcategory |-> k[2],
       total_amount |->
           SumAmounts({r \in rows : r.category = k[1] /\ r.subcategory = k[2]})]
      : k \in {<<r.category, r.subcategory>> : r \in rows} }

\* summarize's SELECT ... GROUP BY ... ORDER BY total_amount DESC: the results.
SummarizeQueryResults(query, params) ==
    LET groups == GroupTotals(Matching(query, params))
    IN  SortedSeqs(groups, [g \in groups |-> 0 - g.total_amount])

\* Alphabetical rank of the taxonomy's names (ORDER BY c.name, s.name).
AlphaOrder == <<"Food", "Groceries", "Health", "Transit", "Transport">>

NameRank(n) == CHOOSE i \in 1..Len(AlphaOrder) : AlphaOrder[i] = n

\* Rank of an optional subcategory name; NULL sorts last in ascending order.
SubRank(opt) == IF opt = None THEN Len(AlphaOrder) + 1 ELSE NameRank(opt[1])

\* categories' rows: FROM categories c LEFT JOIN subcategories s ... ORDER BY
CategoryRows ==
    { [category |-> c.name, subcategory |-> Some(s.name)]
        : <<c, s>> \in {p \in categories \X subcategories : p[2].category_id = p[1].id} }
    \cup
    { [category |-> c.name, subcategory |-> None]
        : c \in {x \in categories : \A s \in subcategories : s.category_id # x.id} }

RECURSIVE GroupByCategory(_)
\* result.setdefault(r["category"], []).append(r["subcategory"]), key by key.
GroupByCategory(rows) ==
    IF rows = <<>> THEN <<>>
    ELSE LET k == Head(rows).category
             mine == SelectSeq(rows, LAMBDA r : r.category = k)
             rest == SelectSeq(rows, LAMBDA r : r.category # k)
         IN  <<[category |-> k,
                subcategories |-> [i \in 1..Len(mine) |-> mine[i].subcategory]]>>
             \o GroupByCategory(rest)

\* categories' result: the rows in ORDER BY c.name, s.name, grouped into the dict.
CategoriesResults ==
    { GroupByCategory(q) : q \in SortedSeqs(CategoryRows,
          [r \in CategoryRows |->
              NameRank(r.category) * (Len(AlphaOrder) + 2) + SubRank(r.subcategory)]) }

------------------------------------------------------------------------------
(* Request handlers *)

\* What a handler gives its caller: nothing yet, a returned error value
\* {"error": ...}, {"status": "ok", "id": ...}, returned rows, or an exception.
NoRet == [kind |-> "none", error |-> <<>>, id |-> 0, rows |-> <<>>, exc |-> ""]
ErrorVal(msg) == [NoRet EXCEPT !.kind = "error", !.error = msg]
OkVal(id) == [NoRet EXCEPT !.kind = "ok", !.id = id]
RowsVal(rows) == [NoRet EXCEPT !.kind = "rows", !.rows = rows]
Raise(exc) == [NoRet EXCEPT !.kind = "raise", !.exc = exc]

\* The arguments and local variables of a handler invocation.
EmptyFrame ==
    [op |-> "", token |-> None, user_id |-> "",
     date |-> <<>>, amount |-> 0, category |-> None, subcategory |-> None,
     note |-> "", start_date |-> <<>>, end_date |-> <<>>,
     category_id |-> None, subcategory_id |-> None, expense_date |-> None,
     start |-> None, end |-> None, query |-> <<>>, params |-> <<>>,
     pending |-> NoRet]

\* require_user without its check of the "sub" claim.
require_user_unchecked(token) ==
    IF token = None THEN None
    ELSE IF token[1].sub = None THEN Some("")
    ELSE token[1].sub

\* require_user(): Some(user id), or None when it raises RuntimeError.
\* token is get_access_token(): None, or Some of its claims.
require_user(token) ==
    IF token = None THEN None
    ELSE IF ~Truthy(token[1].sub) THEN None
    ELSE token[1].sub

\* add_expense's try/except around strptime: Some(date), or None for the
\* returned format error.
NormalizeDate(text) ==
    IF ParseDmy[text] # None THEN ParseDmy[text] ELSE ParseYmd[text]

\* list_expenses' and summarize's try/except around the two strptime pairs.
\* The first pair rebinds start_date to a date before it parses end_date, so
\* when only the end fails the fallback hands strptime a date: TypeError,
\* which except ValueError does not catch.
NormalizeRange(start_date, end_date) ==
    IF ParseDmy[start_date] # None
    THEN IF ParseDmy[end_date] # None
         THEN [kind |-> "ok", start |-> ParseDmy[start_date],
               end |-> ParseDmy[end_date]]
         ELSE [kind |-> "raise", start |-> None, end |-> None]
    ELSE IF ParseYmd[start_date] # None /\ ParseYmd[end_date] # None
         THEN [kind |-> "ok", start |-> ParseYmd[start_date],
               end |-> ParseYmd[end_date]]
         ELSE [kind |-> "error", start |-> None, end |-> None]

Log(t, events) == trace' = [trace EXCEPT ![t] = trace[t] \o events]

\* The handler ends before its try block: nothing to release.
Finish(t, f, r) ==
    /\ pc' = [pc EXCEPT ![t] = "done"]
    /\ frame' = [frame EXCEPT ![t] = f]
    /\ ret' = [ret EXCEPT ![t] = r]

\* The handler goes on to its next await.
Goto(t, f, p) ==
    /\ pc' = [pc EXCEPT ![t] = p]
    /\ frame' = [frame EXCEPT ![t] = f]
    /\ ret' = [ret EXCEPT ![t] = NoRet]

\* ExitTry with the error returns placed outside the try block: they skip finally.
ExitTryErrorsSkipFinally(t, f, r) ==
    IF r.kind = "error"
    THEN /\ pc' = [pc EXCEPT ![t] = "done"]
         /\ frame' = [frame EXCEPT ![t] = f]
         /\ ret' = [ret EXCEPT ![t] = r]
    ELSE /\ pc' = [pc EXCEPT ![t] = "close"]
         /\ frame' = [frame EXCEPT ![t] = [f EXCEPT !.pending = r]]
         /\ ret' = ret

\* A return or an exception inside try: the finally clause runs first.
ExitTry(t, f, r) ==
    /\ pc' = [pc EXCEPT ![t] = "close"]
    /\ frame' = [frame EXCEPT ![t] = [f EXCEPT !.pending = r]]
    /\ ret' = ret

Store == <<categories, subcategories, expenses>>

\* The transport invokes a handler on an idle task.
Invoke(t, limit) ==
    /\ pc[t] \in {"idle", "done"}
    /\ calls < limit
    /\ calls' = calls + 1

categories_call(t, limit) ==
    /\ Invoke(t, limit)
    /\ Goto(t, [EmptyFrame EXCEPT !.op = "categories"], "get_conn")
    /\ trace' = [trace EXCEPT ![t] = <<>>]
    /\ UNCHANGED <<Store, openConns>>

add_expense_call(t, token, a, limit) ==
    /\ Invoke(t, limit)
    /\ LET f == [EmptyFrame EXCEPT !.op = "add_expense", !.token = token,
                     !.date = a.date, !.amount = a.amount,
                     !.category = Some(a.category),
                     !.subcategory = a.subcategory, !.note = a.note]
           user == require_user(token)
       IN  IF user = None
           THEN Finish(t, f, Raise("RuntimeError"))
           ELSE Goto(t, [f EXCEPT !.user_id = user[1]], "get_conn")
    /\ trace' = [trace EXCEPT ![t] = <<"require_user">>]
    /\ UNCHANGED <<Store, openConns>>

\* The part list_expenses and summarize share: require_user, then the dates.
RangeCall(t, f) ==
    LET user == require_user(f.token)
        n == NormalizeRange(f.start_date, f.end_date)
    IN  IF user = None
        THEN /\ Finish(t, f, Raise("RuntimeError"))
             /\ trace' = [trace EXCEPT ![t] = <<"require_user">>]
        ELSE /\ trace' = [trace EXCEPT ![t] = <<"require_user", "normalize">>]
             /\ CASE n.kind = "raise" ->
                       Finish(t, [f EXCEPT !.user_id = user[1]], Raise("TypeError"))
                  [] n.kind = "error" ->
                       Finish(t, [f EXCEPT !.user_id = user[1]],
                              ErrorVal(MsgInvalidDateRange))
                  [] n.kind = "ok" ->
                       Goto(t, [f EXCEPT !.user_id = user[1],
                                         !.start = n.start, !.end = n.end],
                            "get_conn")

list_expenses_call(t, token, r, limit) ==
    /\ Invoke(t, limit)
    /\ RangeCall(t, [EmptyFrame EXCEPT !.op = "list_expenses", !.token = token,
                        !.start_date = r.start_date, !.end_date = r.end_date])
    /\ UNCHANGED <<Store, openConns>>

summarize_call(t, token, a, limit) ==
    /\ Invoke(t, limit)
    /\ RangeCall(t, [EmptyFrame EXCEPT !.op = "summarize", !.token = token,
                        !.start_date = a.start_date, !.end_date = a.end_date,
                        !.category = a.category,
                        !.subcategory = a.subcategory])
    /\ UNCHANGED <<Store, openConns>>

\* The try block a handler enters once it holds its connection.
TryEntry(op) ==
    CASE op = "categories" -> "categories_fetch"
      [] op = "add_expense" -> "add_category"
      [] op = "list_expenses" -> "list_fetch"
      [] op = "summarize" -> "summarize_fetch"

\* conn = await get_conn()
get_conn(t) ==
    /\ pc[t] = "get_conn"
    /\ \/ /\ openConns' = openConns + 1
          /\ Goto(t, frame[t], TryEntry(frame[t].op))
          /\ Log(t, <<"connect">>)
       \/ /\ Finish(t, frame[t], Raise("StoreError"))
          /\ UNCHANGED <<openConns, trace>>
    /\ UNCHANGED <<Store, calls>>

\* finally: await conn.close(), then the pending return or exception.
close(t) ==
    /\ pc[t] = "close"
    /\ openConns' = openConns - 1
    /\ Finish(t, [frame[t] EXCEPT !.pending = NoRet], frame[t].pending)
    /\ Log(t, <<"close">>)
    /\ UNCHANGED <<Store, calls>>

\* A query raises (connection lost, server error).
query_fault(t) ==
    /\ pc[t] \in {"categories_fetch", "add_category", "add_subcategory",
                  "add_insert", "list_fetch", "summarize_fetch"}
    /\ ExitTry(t, frame[t], Raise("StoreError"))
    /\ UNCHANGED <<Store, openConns, trace, calls>>

categories_fetch(t) ==
    /\ pc[t] = "categories_fetch"
    /\ \E result \in CategoriesResults : ExitTry(t, frame[t], RowsVal(result))
    /\ Log(t, <<"read">>)
    /\ UNCHANGED <<Store, openConns, calls>>

\* After the taxonomy lookups: the date, then on to the insert.
AfterTaxonomy(t, f, events) ==
    LET d == NormalizeDate(f.date)
    IN  /\ Log(t, events \o <<"normalize">>)
        /\ IF d = None
           THEN ExitTry(t, f, ErrorVal(MsgInvalidDateAdd))
           ELSE Goto(t, [f EXCEPT !.expense_date = d], "add_insert")

add_expense_category(t) ==
    /\ pc[t] = "add_category"
    /\ LET f == frame[t]
           cat == SelectCategory(f.category[1])
       IN  IF cat = None
           THEN /\ ExitTry(t, f, ErrorVal(MsgInvalidCategory(f.category[1])))
                /\ Log(t, <<"read">>)
           ELSE IF Truthy(f.subcategory)
           THEN /\ Goto(t, [f EXCEPT !.category_id = cat], "add_subcategory")
                /\ Log(t, <<"read">>)
           ELSE AfterTaxonomy(t, [f EXCEPT !.category_id = cat], <<"read">>)
    /\ UNCHANGED <<Store, openConns, calls>>

add_expense_subcategory(t) ==
    /\ pc[t] = "add_subcategory"
    /\ LET f == frame[t]
           sub == SelectSubcategory(f.subcategory[1], f.category_id[1])
       IN  IF sub = None
           THEN /\ ExitTry(t, f, ErrorVal(MsgInvalidSubcategory(f.subcategory[1],
                                                               f.category[1])))
                /\ Log(t, <<"read">>)
           ELSE AfterTaxonomy(t, [f EXCEPT !.subcategory_id = sub], <<"read">>)
    /\ UNCHANGED <<Store, openConns, calls>>

add_expense_insert(t) ==
    /\ pc[t] = "add_insert"
    /\ LET f == frame[t]
       IN  /\ expenses' = InsertExpense(f.user_id, f.expense_date[1], f.amount,
                                        f.category_id[1], f.subcategory_id, f.note)
           /\ ExitTry(t, f, OkVal(Len(expenses) + 1))
    /\ Log(t, <<"write">>)
    /\ UNCHANGED <<categories, subcategories, openConns, calls>>

list_expenses_fetch(t) ==
    /\ pc[t] = "list_fetch"
    /\ LET f == frame[t]
           params == <<StrP(f.user_id), DateP(f.start[1]), DateP(f.end[1])>>
       IN  \E rows \in ListQueryResults(params) :
               ExitTry(t, [f EXCEPT !.query = WhereOwnerAndRange, !.params = params],
                       RowsVal(rows))
    /\ Log(t, <<"read">>)
    /\ UNCHANGED <<Store, openConns, calls>>

summarize_fetch(t) ==
    /\ pc[t] = "summarize_fetch"
    /\ LET f == frame[t]
           b == BuildSummarize(f.user_id, f.start[1], f.end[1],
                               f.category, f.subcategory)
           g == [f EXCEPT !.query = b.query, !.params = b.params]
       IN  IF BindOk(b.query, b.params)
           THEN \E rows \in SummarizeQueryResults(b.query, b.params) :
                    ExitTry(t, g, RowsVal(rows))
           ELSE ExitTry(t, g, Raise("StoreError"))
    /\ Log(t, <<"read">>)
    /\ UNCHANGED <<Store, openConns, calls>>

\* One run of postgre.py on a categories.json; its transaction commits at once.
Seed ==
    /\ \E data \in SeedFiles :
          LET r == SeedLoop(data, categories, subcategories)
          IN  /\ categories' = r.categories
              /\ subcategories' = r.subcategories
    /\ UNCHANGED <<expenses, openConns, pc, frame, ret, trace, calls>>

------------------------------------------------------------------------------
(* Inputs *)

TokenOf(user) == Some([sub |-> Some(user)])

\* Concurrent requests: two callers and a few representative calls.
Calls ==
    [tokens |-> {TokenOf("u"), TokenOf("v")},
     adds |-> { [date |-> Text_15_01_2024, amount |-> 4250, category |-> "Food",
                 subcategory |-> Some("Groceries"), note |-> ""],
                [date |-> Text_2024_01_20, amount |-> 700, category |-> "Food",
                 subcategory |-> Some("Transit"), note |-> ""] },
     ranges |-> { [start_date |-> Text_2024_01_01, end_date |-> Text_2024_01_31],
                  [start_date |-> Text_01_01_2024, end_date |-> Text_15_01_2024] },
     summaries |-> { [start_date |-> Text_2024_01_01, end_date |-> Text_2024_01_31,
                      category |-> Some("Food"), subcategory |-> None] }]

\* A single request: every combination of the argument values.
AnyCall ==
    [tokens |-> {None, Some([sub |-> None]), Some([sub |-> Some("")]),
                 TokenOf("u"), TokenOf("v")},
     adds |-> [date : DateTexts, amount : {4250, 0 - 300},
               category : {"Food", "Transport", "Misc"},
               subcategory : {None, Some(""), Some("Groceries"), Some("Transit")},
               note : {""}],
     ranges |-> [start_date : RangeTexts, end_date : RangeTexts],
     summaries |-> [start_date : RangeTexts, end_date : RangeTexts,
                    category : {None, Some(""), Some("Food")},
                    subcategory : {None, Some(""), Some("Groceries")}]]

------------------------------------------------------------------------------
(* Specifications *)

Init ==
    /\ categories = Seeded.categories
    /\ subcategories = Seeded.subcategories
    /\ expenses = <<>>
    /\ openConns = 0
    /\ pc = [t \in Tasks |-> "idle"]
    /\ frame = [t \in Tasks |-> EmptyFrame]
    /\ ret = [t \in Tasks |-> NoRet]
    /\ trace = [t \in Tasks |-> <<>>]
    /\ calls = 0

\* The steps of task t, its calls drawn from In, at most limit calls in all.
Handler(t, In, limit) ==
    \/ categories_call(t, limit)
    \/ \E token \in In.tokens, a \in In.adds : add_expense_call(t, token, a, limit)
    \/ \E token \in In.tokens, r \in In.ranges : list_expenses_call(t, token, r, limit)
    \/ \E token \in In.tokens, a \in In.summaries : summarize_call(t, token, a, limit)
    \/ get_conn(t)
    \/ categories_fetch(t)
    \/ add_expense_category(t)
    \/ add_expense_subcategory(t)
    \/ add_expense_insert(t)
    \/ list_expenses_fetch(t)
    \/ summarize_fetch(t)
    \/ query_fault(t)
    \/ close(t)

Next == Seed \/ \E t \in Tasks : Handler(t, Calls, MaxCalls)

\* Concurrent requests and seeding runs.
Spec == Init /\ [][Next]_vars

OneCallNext == Handler("t1", AnyCall, 1)

\* One request, alone, with any arguments.
OneCallSpec == Init /\ [][OneCallNext]_vars

------------------------------------------------------------------------------
(* Properties *)

Count(seq, x) == Cardinality({i \in 1..Len(seq) : seq[i] = x})

Done(t) == pc[t] = "done"

Authenticated(t) == frame[t].user_id # ""

RangeOp(t) == frame[t].op \in {"list_expenses", "summarize"}

\* The text matches one of the two formats.
Accepted(text) == strptime_dmy(text) # None \/ strptime_ymd(text) # None

Rows == {expenses[i] : i \in 1..Len(expenses)}

CategoryName(id) == (CHOOSE c \in categories : c.id = id).name

SubcategoryName(optid) ==
    IF optid = None THEN None
    ELSE Some((CHOOSE sc \in subcategories : sc.id = optid[1]).name)

InRange(x, start, end) ==
    DateOrd(start) <= DateOrd(x.expense_date) /\ DateOrd(x.expense_date) <= DateOrd(end)

\* Task t's query returns its rows in this step.
ReadStep(t, at) ==
    /\ pc[t] = at
    /\ pc'[t] = "close"
    /\ frame'[t].pending.kind = "rows"

\* There is no access token, or its claims hold no "sub".
IdentityFails(token) == token = None \/ token[1].sub = None

(* C1: identity resolution that fails (no token, or a token without "sub")
   aborts add_expense, list_expenses and summarize with the authentication
   failure before anything else: the handler has only run require_user, it
   opened no connection, read nothing, normalized nothing and wrote no row. *)
C1_AuthFailsFirst ==
    \A t \in Tasks :
        (frame[t].op \in {"add_expense", "list_expenses", "summarize"}
            /\ IdentityFails(frame[t].token))
        => /\ pc[t] = "done"
           /\ ret[t] = Raise("RuntimeError")
           /\ trace[t] = <<"require_user">>
           /\ expenses = <<>>
           /\ openConns = 0

C1_Witness ==
    \E t \in Tasks :
        /\ frame[t].op = "add_expense"
        /\ frame[t].token = Some([sub |-> None])
        /\ frame[t].category = Some("Food")
        /\ ret[t] = Raise("RuntimeError")

(* C2: the query summarize builds has placeholders $1..$n for its n
   parameters, and the k-th parameter is the value of the k-th predicate in
   build order (owner, start, end, category if supplied, subcategory if
   supplied). *)
C2_PlaceholdersTrackParams ==
    \A t \in Tasks :
        (frame[t].op = "summarize" /\ frame[t].query # <<>>)
        => LET f == frame[t]
               values == <<StrP(f.user_id), DateP(f.start[1]), DateP(f.end[1])>>
                         \o (IF Truthy(f.category) THEN <<StrP(f.category[1])>> ELSE <<>>)
                         \o (IF Truthy(f.subcategory)
                             THEN <<StrP(f.subcategory[1])>> ELSE <<>>)
           IN  /\ f.params = values
               /\ Placeholders(f.query) = 1..Len(f.params)
               /\ Len(f.query) = Len(f.params) - 1

(* C3: an authenticated add_expense with an existing category and a supplied
   subcategory (any string, not None) that does not exist under that category
   returns the invalid-subcategory error and stores nothing; and any
   add_expense that returns an error value stores nothing. *)
C3_UnknownSubcategoryRejected ==
    \A t \in Tasks :
        (frame[t].op = "add_expense" /\ Done(t) /\ Authenticated(t)
            /\ ret[t].kind # "raise")
        => LET f == frame[t]
               known == \E c \in categories : c.name = f.category[1]
               under == \E c \in categories, sc \in subcategories :
                           /\ c.name = f.category[1]
                           /\ sc.category_id = c.id
                           /\ sc.name = f.subcategory[1]
           IN  /\ (known /\ f.subcategory # None /\ ~under)
                  => /\ ret[t] = ErrorVal(MsgInvalidSubcategory(f.subcategory[1],
                                                                f.category[1]))
                     /\ expenses = <<>>
               /\ ret[t].kind = "error" => expenses = <<>>

(* C4: every stored expense references an existing category, and its
   subcategory, when set, is a subcategory of that same category. *)
C4_ExpenseReferences ==
    \A x \in Rows :
        /\ \E c \in categories : c.id = x.category_id
        /\ x.subcategory_id # None
           => \E sc \in subcategories :
                  sc.id = x.subcategory_id[1] /\ sc.category_id = x.category_id

C4_Witness ==
    /\ \E c \in categories : c.name = "Health"
    /\ \E x \in Rows :
          /\ x.subcategory_id # None
          /\ SubcategoryName(x.subcategory_id) = Some("Transit")
          /\ CategoryName(x.category_id) = "Food"

C5_OwnerWritten ==
    \A t \in Tasks :
        (frame[t].op = "add_expense" /\ Done(t) /\ ret[t].kind = "ok")
        => expenses[ret[t].id].user_id = frame[t].token[1].sub[1]

C5_ListOwnOnly(t) ==
    LET f == frame'[t]
        rows == f.pending.rows
    IN  {rows[i].id : i \in 1..Len(rows)}
        = {x.id : x \in {y \in Rows : y.user_id = f.token[1].sub[1]
                                       /\ InRange(y, f.start[1], f.end[1])}}

C5_SummarizeOwnOnly(t) ==
    LET f == frame'[t]
        rows == f.pending.rows
        own == {y \in Rows :
                   /\ y.user_id = f.token[1].sub[1]
                   /\ InRange(y, f.start[1], f.end[1])
                   /\ Truthy(f.category) => CategoryName(y.category_id) = f.category[1]
                   /\ Truthy(f.subcategory)
                      => SubcategoryName(y.subcategory_id) = f.subcategory}
        group(r) == {y \in own : /\ CategoryName(y.category_id) = r.category
                                 /\ SubcategoryName(y.subcategory_id) = r.subcategory}
    IN  /\ \A i \in 1..Len(rows) :
              group(rows[i]) # {} /\ rows[i].total_amount = SumAmounts(group(rows[i]))
        /\ \A y \in own : \E i \in 1..Len(rows) : y \in group(rows[i])

(* C5: a row add_expense writes carries the caller's identity (the token's
   "sub") as its owner; what list_expenses and summarize return to caller u is
   computed from the expenses owned by u alone. *)
C5_OwnerIsolation ==
    [][ /\ C5_OwnerWritten'
        /\ \A t \in Tasks :
              /\ ReadStep(t, "list_fetch") => C5_ListOwnOnly(t)
              /\ ReadStep(t, "summarize_fetch") => C5_SummarizeOwnOnly(t) ]_vars

C5_Witness ==
    \E t \in Tasks :
        /\ frame[t].op = "list_expenses" /\ Done(t)
        /\ frame[t].user_id = "u"
        /\ ret[t].kind = "rows" /\ Len(ret[t].rows) = 1
        /\ \E x \in Rows : x.user_id = "v" /\ InRange(x, frame[t].start[1], frame[t].end[1])

(* C6: list_expenses and summarize normalize the two ends of the range
   independently: the range is accepted whenever each end matches one of the
   two formats, and the format error is returned exactly when an end matches
   neither. *)
C6_RangeEndsIndependent ==
    \A t \in Tasks :
        (RangeOp(t) /\ Authenticated(t))
        => LET both == Accepted(frame[t].start_date) /\ Accepted(frame[t].end_date)
           IN  /\ ret[t] = ErrorVal(MsgInvalidDateRange) <=> ~both
               /\ both => ret[t].exc # "TypeError"

\* The calendar dates the texts of Calls stand for.
ExpectedDate(text) ==
    CASE text = Text_15_01_2024 -> MkDate(2024, 1, 15)
      [] text = Text_2024_01_20 -> MkDate(2024, 1, 20)

C7_Added ==
    \A t \in Tasks :
        (frame[t].op = "add_expense" /\ Done(t) /\ ret[t].kind = "ok")
        => LET f == frame[t]
               x == expenses[ret[t].id]
           IN  /\ x.id = ret[t].id
               /\ x.user_id = f.user_id
               /\ x.expense_date = ExpectedDate(f.date)
               /\ x.amount = f.amount
               /\ CategoryName(x.category_id) = f.category[1]
               /\ SubcategoryName(x.subcategory_id) = f.subcategory

C7_Listed(t) ==
    LET f == frame'[t]
        rows == f.pending.rows
        mine == {y \in Rows : y.user_id = f.user_id /\ InRange(y, f.start[1], f.end[1])}
    IN  /\ {rows[i] : i \in 1..Len(rows)}
           = { [id |-> y.id, expense_date |-> y.expense_date, amount |-> y.amount,
                category |-> CategoryName(y.category_id),
                subcategory |-> SubcategoryName(y.subcategory_id),
                note |-> y.note] : y \in mine }
        /\ Len(rows) = Cardinality(mine)
        /\ \A i, j \in 1..Len(rows) :
              i < j => DateOrd(rows[i].expense_date) <= DateOrd(rows[j].expense_date)

(* C7: round trip.  An add_expense that returned {status: ok, id} stored,
   under that id, the caller, the normalized date, the amount and the named
   category and subcategory; a list_expenses by u over [s, e] returns exactly
   the records of u's expenses dated within [s, e], each with its id, date,
   amount, category name and subcategory name, in ascending date order.
   (A list_expenses whose range texts are not accepted returns no records at
   all: that is C6's and C9's case.) *)
C7_RoundTrip ==
    [][ /\ C7_Added'
        /\ \A t \in Tasks : ReadStep(t, "list_fetch") => C7_Listed(t) ]_vars

C7_Witness ==
    \E t \in Tasks :
        /\ frame[t].op = "list_expenses" /\ Done(t)
        /\ ret[t].kind = "rows" /\ Len(ret[t].rows) = 2
        /\ ret[t].rows[1].expense_date = MkDate(2024, 1, 15)
        /\ ret[t].rows[1].id = 2
        /\ ret[t].rows[1].subcategory = Some("Groceries")
        /\ ret[t].rows[2].expense_date = MkDate(2024, 1, 20)

(* C8: add_expense reads its date as DD-MM-YYYY first and as YYYY-MM-DD only
   if that fails: "01-02-2020" is stored as 1 February 2020, "15-01-2024" and
   "2024-01-15" as 15 January 2024, and a text in neither format
   ("15/01/2024") gives the format error value. *)
C8_DatePrecedence ==
    \A t \in Tasks :
        (frame[t].op = "add_expense" /\ Done(t) /\ Count(trace[t], "normalize") > 0
            /\ ret[t].kind # "raise")
        => LET f == frame[t]
               stored(d) == ret[t].kind = "ok" /\ expenses[ret[t].id].expense_date = d
           IN  /\ f.date = Text_01_02_2020 => stored(MkDate(2020, 2, 1))
               /\ f.date = Text_15_01_2024 => stored(MkDate(2024, 1, 15))
               /\ f.date = Text_2024_01_15 => stored(MkDate(2024, 1, 15))
               /\ f.date = Text_15s01s2024 => ret[t] = ErrorVal(MsgInvalidDateAdd)
               /\ strptime_dmy(f.date) # None => stored(strptime_dmy(f.date)[1])
               /\ (strptime_dmy(f.date) = None /\ strptime_ymd(f.date) # None)
                  => stored(strptime_ymd(f.date)[1])
               /\ ~Accepted(f.date) => ret[t] = ErrorVal(MsgInvalidDateAdd)

C8_Witness ==
    \E t \in Tasks :
        /\ frame[t].op = "add_expense" /\ Done(t)
        /\ frame[t].date = Text_01_02_2020
        /\ ret[t].kind = "ok"
        /\ expenses[ret[t].id].expense_date = MkDate(2020, 2, 1)

\* The message holds the word.
Names(msg, word) == \E i \in 1..Len(msg) : msg[i] = word

(* C9: in add_expense, list_expenses and summarize a date text in neither
   format comes back as a returned error value, not an exception, and the
   value names both formats, DD-MM-YYYY and YYYY-MM-DD. *)
C9_FormatErrorNamesFormats ==
    \A t \in Tasks :
        (Done(t) /\ Count(trace[t], "normalize") > 0
            /\ \/ frame[t].op = "add_expense" /\ ~Accepted(frame[t].date)
               \/ RangeOp(t) /\ ~Accepted(frame[t].start_date)
               \/ RangeOp(t) /\ ~Accepted(frame[t].end_date))
        => /\ ret[t].kind = "error"
           /\ Names(ret[t].error, "DD-MM-YYYY")
           /\ Names(ret[t].error, "YYYY-MM-DD")

\* Where a handler is inside its try block or its finally clause.
Holding == {"categories_fetch", "add_category", "add_subcategory", "add_insert",
            "list_fetch", "summarize_fetch", "close"}

(* C10: every connection a handler acquires is closed before the handler
   finishes, on every exit path; a handler acquires at most one; when no
   handler is running no connection is open. *)
C10_ConnectionsReleased ==
    /\ openConns = Cardinality({t \in Tasks : pc[t] \in Holding})
    /\ \A t \in Tasks :
          /\ Count(trace[t], "connect") <= 1
          /\ pc[t] \in {"idle", "done"}
             => Count(trace[t], "close") = Count(trace[t], "connect")
    /\ (\A t \in Tasks : pc[t] \in {"idle", "done"}) => openConns = 0

C10_Witness ==
    /\ openConns = 0
    /\ \E t \in Tasks :
          /\ Done(t) /\ frame[t].op = "add_expense"
          /\ ret[t] = Raise("StoreError")
          /\ Count(trace[t], "connect") = 1 /\ Count(trace[t], "close") = 1
    /\ \E t \in Tasks :
          /\ Done(t) /\ frame[t].op = "add_expense"
          /\ ret[t].kind = "error"
          /\ Count(trace[t], "close") = 1

====
